---- MODULE Spec2Model ----
(***************************************************************************)
(* Model of shampoo/reconstruction.py: the Hologram reconstruction session *)
(* (constructor, reconstruct, reconstruct_wavefield, the result cache and  *)
(* The spectral peak search, the propagation kernel and the centring      *)
(* shift are also modelled on concrete numbers, each as a direct call.      *)
(*                                                                         *)
(* Numerical arrays whose values come out of an FFT are kept symbolic: a   *)
(* reconstructed wavefield is the record of the inputs that determine it   *)
(* (the pixel data that went into the forward transform, the reference     *)
(* wave multiplied in, the propagation distance).  A real array is kept as *)
(* data[y, x] * W[y, x]^apodized, W the apodization weights, so that the   *)
(* in-place multiplication of apodize is exact.                            *)
(***************************************************************************)
EXTENDS Integers, Sequences, FiniteSets, TLC

VARIABLES
    pc,               \* "new" before Hologram(...), "ready" after, "failed" if __init__ raised
    args,             \* the arguments Hologram(...) was called with
    fields,           \* attributes __init__ sets and no method reassigns
    hologram,         \* self.hologram
    reference_wave,   \* self.reference_wave
    reconstructions,  \* self.reconstructions: cache key -> ReconstructedWavefield
    calls,            \* one record per reconstruct / reconstruct_wavefield call made
    fft_calls,        \* number of fft2 calls performed
    corrector_calls,  \* number of calculate_digital_phase_mask calls
    plot_calls,       \* number of matplotlib calls (figure creation, show)
    mask,             \* last array returned by generate_real_image_mask
    mask_args,        \* its arguments
    wf,               \* a ReconstructedWavefield object
    wf_log,           \* the accesses made to wf's properties
    direct_call,      \* a direct call of one method: its name and arguments
    direct_result     \* what that call returned or raised

vars == <<pc, args, fields, hologram, reference_wave, reconstructions, calls,
          fft_calls, corrector_calls, plot_calls, mask, mask_args, wf, wf_log,
          direct_call, direct_result>>

\* Python values are records with a class; exceptions are named by strings.
None == [class |-> "NoneType"]
Unset == [class |-> "unset"]
NoError == "no exception"
Ref(name) == [class |-> "ndarray", name |-> name]

(***************************************************************************)
(* Bounds and input sets                                                   *)
(***************************************************************************)
MaxCalls == 3
MaxMaskN == 4
MaxAccesses == 4
MaxPeakN == 5
MaxKernelN == 3
MaxKernelDistance == 3
MaxShiftN == 11

RawInputs ==
    {[shape |-> <<20, 20>>, pattern |-> "flat"],
     [shape |-> <<20, 20>>, pattern |-> "center"],
     [shape |-> <<10, 12>>, pattern |-> "flat"]}
RebinFactors == {-1, 0, 1, 2}
MarginPercents == {15, 60}
Distances == {1, 2}
RefNames == {"R1", "R2"}
MarginFactorPercents == {10, 34, 40}
Magnitudes == 0 .. 2
KernelLengths == {1, 3}
MinShiftN == 10

RANDOM_SEED == 42
DefaultWavelength == 405
DefaultPixelPitch == 345
DefaultBackgroundInterval == 3

(***************************************************************************)
(* Arrays                                                                  *)
(***************************************************************************)
Index(shape) == (0 .. shape[1] - 1) \X (0 .. shape[2] - 1)

Array(shape, data) == [shape |-> shape, data |-> data, apodized |-> 0]

\* Input holograms are float64 arrays, as _load_hologram produces them.
RawPixel(pattern, shape, y, x) ==
    IF pattern = "flat" THEN 4
    ELSE IF y = shape[1] \div 2 /\ x = shape[2] \div 2 THEN 4 ELSE 0

RawHologram(pattern, shape) ==
    Array(shape, [p \in Index(shape) |-> RawPixel(pattern, shape, p[1], p[2])])

RECURSIVE SumOver(_, _)
SumOver(f, S) ==
    IF S = {} THEN 0
    ELSE LET e == CHOOSE e \in S : TRUE IN f[e] + SumOver(f, S \ {e})

Arange(stop, step) == [i \in 1 .. ((stop + step - 1) \div step) |-> (i - 1) * step]

(***************************************************************************)
(* rebin_image.  With true division the new shape is a tuple of floats:    *)
(* a numpy that refuses float dimensions raises TypeError in reshape, an   *)
(* older one truncates them (float_shape_ok).                              *)
(***************************************************************************)
Ok(v) == [raised |-> NoError, value |-> v]
Raise(exc) == [raised |-> exc, value |-> None]

BlockMean(a, k) ==
    LET shape == <<a.shape[1] \div k, a.shape[2] \div k>>
        block(y, x) == (y * k .. y * k + k - 1) \X (x * k .. x * k + k - 1)
    IN  Array(shape, [p \in Index(shape) |->
                         SumOver(a.data, block(p[1], p[2])) \div (k * k)])

rebin_image(a, binning_factor, float_shape_ok) ==
    IF binning_factor = 1 THEN Ok(a)
    ELSE IF binning_factor = 0 THEN Raise("ZeroDivisionError")
    ELSE IF ~float_shape_ok THEN Raise("TypeError")
    ELSE IF \/ binning_factor < 0
            \/ a.shape[1] % binning_factor # 0
            \/ a.shape[2] % binning_factor # 0
         THEN Raise("ValueError")
    ELSE Ok(BlockMean(a, binning_factor))

(***************************************************************************)
(* Hologram.__init__.  Lengths are integers in model units: wavelength in  *)
(* nm, pixel pitch in 0.01 um, detector_edge_margin in percent.            *)
(***************************************************************************)
EdgeMargin(n, rebin_factor, margin_percent) ==
    (n * margin_percent) \div (rebin_factor * 100)

HologramInit(a) ==
    LET raw == RawHologram(a.hologram.pattern, a.hologram.shape)
        binned == rebin_image(raw, a.rebin_factor, a.float_shape_ok)
    IN  IF binned.raised # NoError THEN binned
        ELSE LET n == binned.value.shape[1]
             IN  Ok([hologram |-> binned.value,
                     fields |->
                        [n |-> n,
                         rebin_factor |-> a.rebin_factor,
                         wavelength |-> DefaultWavelength,
                         dx |-> DefaultPixelPitch * a.rebin_factor,
                         dy |-> DefaultPixelPitch * a.rebin_factor,
                         edge_margin |-> EdgeMargin(n, a.rebin_factor, a.detector_edge_margin),
                         background_columns |-> Arange(n, DefaultBackgroundInterval),
                         background_rows |-> Arange(n, DefaultBackgroundInterval),
                         random_seed |-> RANDOM_SEED]])

EmptyDict == [k \in {} |-> None]

ConstructorArgs ==
    { a \in [hologram : RawInputs, rebin_factor : RebinFactors,
             detector_edge_margin : MarginPercents, float_shape_ok : BOOLEAN] :
        a.rebin_factor \in {0, 1} => a.float_shape_ok }

Construct ==
    /\ pc = "new"
    /\ \E a \in ConstructorArgs :
          LET r == HologramInit(a)
          IN  /\ args' = a
              /\ IF r.raised # NoError
                 THEN /\ pc' = "failed"
                      /\ UNCHANGED <<fields, hologram, reconstructions>>
                 ELSE /\ pc' = "ready"
                      /\ fields' = r.value.fields
                      /\ hologram' = r.value.hologram
                      /\ reconstructions' = EmptyDict
    /\ UNCHANGED <<reference_wave, calls, fft_calls, corrector_calls, plot_calls,
                   mask, mask_args, wf, wf_log,
                   direct_call, direct_result>>

(***************************************************************************)
(* Hologram.apodize: arr *= weights, in place.  The weights are an n x n   *)
(* array of values in (0, 1]; the weight of a position is 1.0 exactly at   *)
(* x = y = n/2, so a pixel keeps its value under the multiplication iff it *)
(* is 0 or sits there.                                                     *)
(***************************************************************************)
WeightIsOne(n, y, x) == 2 * x = n /\ 2 * y = n

Broadcastable(shape, n) ==
    /\ shape[1] = n \/ n = 1
    /\ shape[2] = n \/ n = 1

Unweighted(arr, n, p) == arr.data[p] = 0 \/ WeightIsOne(n, p[1], p[2])

PixelValue(arr, n, p) ==
    [v |-> arr.data[p], weight_power |-> IF Unweighted(arr, n, p) THEN 0 ELSE arr.apodized]

apodize(arr, n) ==
    IF ~Broadcastable(arr.shape, n) THEN Raise("ValueError")
    ELSE IF \A p \in DOMAIN arr.data : Unweighted(arr, n, p) THEN Ok(arr)
    ELSE Ok([arr EXCEPT !.apodized = @ + 1])

(***************************************************************************)
(* ReconstructedWavefield.__init__                                         *)
(***************************************************************************)
ReconstructedWavefield(reconstructed_wavefield) ==
    [class |-> "ReconstructedWavefield",
     reconstructed_wavefield |-> reconstructed_wavefield,
     intensity_image |-> None,
     phase_image |-> None,
     random_seed |-> RANDOM_SEED]

(***************************************************************************)
(* Hologram.find_fourier_peak_centroid: the search region is               *)
(* [margin:-margin] with margin = int(n * 0.1); margin = 0 gives the empty *)
(* slice [0:0], whose argmax raises.  The location itself is symbolic.     *)
(***************************************************************************)
PeakMargin(n) == n \div 10

find_fourier_peak_centroid(fourier_arr, n, plot) ==
    IF PeakMargin(n) = 0 THEN Raise("ValueError")
    ELSE Ok([peak_of |-> fourier_arr, margin |-> PeakMargin(n)])

PeakPlotCalls(plot) == IF plot THEN 2 ELSE 0

(***************************************************************************)
(* Hologram.fourier_trans_of_impulse_resp_func: the kernel G of a          *)
(* distance; the distance divides a Python float.                          *)
(***************************************************************************)
fourier_trans_of_impulse_resp_func(f, propagation_distance) ==
    IF propagation_distance = 0 THEN Raise("ZeroDivisionError")
    ELSE Ok([kernel_of |-> propagation_distance, wavelength |-> f.wavelength,
             dx |-> f.dx, dy |-> f.dy, n |-> f.n])

(***************************************************************************)
(* Hologram.calculate_digital_phase_mask.  Line 368 reads the local name   *)
(* phase_x_background; the names bound before that line are the            *)
(* parameters and the targets of the assignments of lines 304-352.  The    *)
(* figures of lines 333-346 and 363-366 are made whatever `plots` is.      *)
(***************************************************************************)
CorrectorNamesBoundBefore368 ==
    {"self", "psi", "plots", "aberr_corr_order", "n_aberr_corr_iter",
     "order", "y", "x", "inverse_psi", "phase_image", "unwrapped_phase_image",
     "grad_x_2", "grad_y_2", "n_rows_or_cols", "least_noisy_x_indices",
     "least_noisy_y_indices", "fig", "ax", "phase_x_bg", "phase_y_bg",
     "phase_x_bg_smooth", "phase_y_bg_smooth"}

ModuleGlobals ==
    {"Image", "np", "gaussian_filter1d", "gaussian_filter", "unwrap_phase",
     "noise_filter", "fft2", "ifft2", "sys", "matplotlib", "plt", "filters",
     "RANDOM_SEED", "rebin_image", "shift_peak", "make_items_hashable",
     "_load_hologram", "Hologram", "ReconstructedWavefield", "_rescale_image",
     "_noise_filter_mask"}

CorrectorNamesReadAt368 == {"np", "least_noisy_x_indices", "phase_x_background", "order"}

calculate_digital_phase_mask(psi, plots) ==
    IF CorrectorNamesReadAt368 \subseteq (CorrectorNamesBoundBefore368 \cup ModuleGlobals)
    THEN Ok([class |-> "ndarray", digital_phase_mask_of |-> psi])
    ELSE Raise("NameError")

CorrectorPlotCalls(plots) ==
    IF CorrectorNamesReadAt368 \subseteq (CorrectorNamesBoundBefore368 \cup ModuleGlobals)
    THEN 6 ELSE 4

(***************************************************************************)
(* Hologram.reconstruct_wavefield.  apodize(self.hologram) multiplies the  *)
(* array it is given in place, so apodized_hologram and self.hologram are  *)
(* one array after line 226.  The result is the record of what it was      *)
(* computed from.                                                          *)
(***************************************************************************)
reference_wave_is_None(rw) == rw = None

\* What tells two states of the one array self.hologram apart: the array is
\* only ever changed by apodize.
Version(arr) == [shape |-> arr.shape, apodized |-> arr.apodized]

Wavefield(apodized_hologram, rw, propagation_distance, n) ==
    [class |-> "ndarray",
     shape |-> <<apodized_hologram.shape[1], apodized_hologram.shape[2]>>,
     hologram |-> Version(apodized_hologram),
     reference_wave |-> rw,
     propagation_distance |-> propagation_distance]

WavefieldStart(holo, rw) ==
    [raised |-> NoError, value |-> None, hologram |-> holo, reference_wave |-> rw,
     ffts |-> 0, correctors |-> 0, plots |-> 0, multiplied |-> None,
     peak_margins |-> {}]

reconstruct_wavefield(holo, rw, f, propagation_distance, plot_aberration, plot_peak) ==
    LET s0 == WavefieldStart(holo, rw)
        apodized == apodize(holo, f.n)
    IN  IF apodized.raised # NoError THEN [s0 EXCEPT !.raised = apodized.raised]
        ELSE
        LET apodized_hologram == apodized.value
            F_hologram == [fft2_of |-> Version(apodized_hologram)]
            peak == find_fourier_peak_centroid(F_hologram, f.n, plot_peak)
            s1 == [s0 EXCEPT !.hologram = apodized_hologram, !.ffts = 1]
        IN  IF peak.raised # NoError THEN [s1 EXCEPT !.raised = peak.raised]
            ELSE
            LET G == fourier_trans_of_impulse_resp_func(f, propagation_distance)
                s2 == [s1 EXCEPT !.plots = PeakPlotCalls(plot_peak),
                                !.peak_margins = {peak.value.margin}]
            IN  IF G.raised # NoError THEN [s2 EXCEPT !.raised = G.raised]
                ELSE IF rw = Unset THEN [s2 EXCEPT !.raised = "AttributeError"]
                ELSE
                LET needs == reference_wave_is_None(rw)
                    psi == [apodized_spectrum_of |-> Version(apodized_hologram),
                            kernel |-> G.value]
                    R == IF needs
                         THEN calculate_digital_phase_mask(psi, plot_aberration)
                         ELSE Ok(rw)
                    s3 == IF needs
                          THEN [s2 EXCEPT !.correctors = 1,
                                          !.plots = @ + CorrectorPlotCalls(plot_aberration)]
                          ELSE s2
                IN  IF R.raised # NoError THEN [s3 EXCEPT !.raised = R.raised]
                    ELSE [s3 EXCEPT
                            !.reference_wave = R.value,
                            !.ffts = 2,
                            !.multiplied = R.value,
                            !.value = Wavefield(apodized_hologram, R.value,
                                                propagation_distance, f.n)]

(***************************************************************************)
(* Hologram.reconstruct                                                    *)
(***************************************************************************)
make_items_hashable(input_iterable) == input_iterable

CacheKey(propagation_distance, f) ==
    make_items_hashable(<<propagation_distance, f.wavelength, f.background_rows,
                          f.background_columns, f.dx, f.dy, f.edge_margin>>)

IsCached(cache, cache_key, recs) == cache /\ cache_key \in DOMAIN recs

ShouldStore(cache, cache_key, recs) == cache /\ cache_key \notin DOMAIN recs

EntryReferenceWaveKeepsFirst(current, reference_wave_arg) ==
    IF current \in {Unset, None} THEN reference_wave_arg ELSE current

EntryReferenceWave(current, reference_wave_arg) == reference_wave_arg

CallArgs ==
    [propagation_distance : Distances, cache : BOOLEAN,
     reference_wave : {Ref(r) : r \in RefNames} \cup {None}]

reconstruct(holo, current_rw, recs, f, a) ==
    LET rw == EntryReferenceWave(current_rw, a.reference_wave)
        cache_key == CacheKey(a.propagation_distance, f)
        hit == IsCached(a.cache, cache_key, recs)
        r == IF hit
             THEN [WavefieldStart(holo, rw) EXCEPT !.value = recs[cache_key]]
             ELSE reconstruct_wavefield(holo, rw, f, a.propagation_distance, FALSE, FALSE)
        store == r.raised = NoError /\ ShouldStore(a.cache, cache_key, recs)
    IN  [r EXCEPT
           !.value = IF r.raised = NoError THEN ReconstructedWavefield(r.value) ELSE None]
        @@ [reconstructions |->
               IF store THEN (cache_key :> ReconstructedWavefield(r.value)) @@ recs
               ELSE recs,
            cache_key |-> cache_key,
            hit |-> hit,
            computed |-> ~hit]

CallRecord(method, a, r, recs_before) ==
    [method |-> method,
     propagation_distance |-> a.propagation_distance,
     cache |-> a.cache,
     reference_wave |-> a.reference_wave,
     cache_key |-> r.cache_key,
     hit |-> r.hit,
     computed |-> r.computed,
     corrector_ran |-> r.correctors > 0,
     multiplied |-> r.multiplied,
     peak_margins |-> r.peak_margins,
     raised |-> r.raised,
     returned |-> r.value,
     reference_wave_after |-> r.reference_wave,
     cache_before |-> recs_before,
     cache_after |-> r.reconstructions]

Reconstruct ==
    /\ pc = "ready"
    /\ Len(calls) < MaxCalls
    /\ \E a \in CallArgs :
          \E r \in {reconstruct(hologram, reference_wave, reconstructions, fields, a)} :
              /\ hologram' = r.hologram
              /\ reference_wave' = r.reference_wave
              /\ reconstructions' = r.reconstructions
              /\ fft_calls' = fft_calls + r.ffts
              /\ corrector_calls' = corrector_calls + r.correctors
              /\ plot_calls' = plot_calls + r.plots
              /\ calls' = Append(calls, CallRecord("reconstruct", a, r, reconstructions))
    /\ UNCHANGED <<pc, args, fields, mask, mask_args, wf, wf_log,
                   direct_call, direct_result>>

(***************************************************************************)
(* A direct call of the public method reconstruct_wavefield: it uses the   *)
(* reference wave the last reconstruct call left on the object, and        *)
(* neither reads nor writes the cache.                                     *)
(***************************************************************************)
ReconstructWavefield ==
    /\ pc = "ready"
    /\ Len(calls) < MaxCalls
    /\ \E d \in Distances :
          \E r \in {reconstruct_wavefield(hologram, reference_wave, fields, d, FALSE, FALSE)} :
          LET a == [propagation_distance |-> d, cache |-> FALSE,
                    reference_wave |-> reference_wave]
              rr == r @@ [cache_key |-> CacheKey(d, fields), hit |-> FALSE,
                          computed |-> TRUE, reconstructions |-> reconstructions]
          IN  /\ hologram' = r.hologram
              /\ reference_wave' = r.reference_wave
              /\ fft_calls' = fft_calls + r.ffts
              /\ corrector_calls' = corrector_calls + r.correctors
              /\ plot_calls' = plot_calls + r.plots
              /\ calls' = Append(calls, CallRecord("reconstruct_wavefield", a, rr,
                                                   reconstructions))
    /\ UNCHANGED <<pc, args, fields, reconstructions, mask, mask_args, wf, wf_log,
                   direct_call, direct_result>>

(***************************************************************************)
(* Hologram.generate_real_image_mask.  self.mgrid = np.mgrid[0:n, 0:n]:    *)
(* mgrid[0][row, col] = row and mgrid[1][row, col] = col, and              *)
(* `y, x = self.mgrid`.  Centres and the radius are in half pixels, so     *)
(* that 150./rebin_factor and off-grid centres are covered.                *)
(***************************************************************************)
mgrid(n) ==
    <<[p \in Index(<<n, n>>) |-> p[1]], [p \in Index(<<n, n>>) |-> p[2]]>>

InsideMaskClosed(x, y, center_x, center_y, radius) ==
    (2 * x - center_x) * (2 * x - center_x) + (2 * y - center_y) * (2 * y - center_y)
        <= radius * radius

InsideMask(x, y, center_x, center_y, radius) ==
    (2 * x - center_x) * (2 * x - center_x) + (2 * y - center_y) * (2 * y - center_y)
        < radius * radius

generate_real_image_mask(n, center_x, center_y, radius) ==
    LET y == mgrid(n)[1]
        x == mgrid(n)[2]
        zeros == [p \in Index(<<n, n>>) |-> 0]
    IN  [p \in Index(<<n, n>>) |->
            IF InsideMask(x[p], y[p], center_x, center_y, radius) THEN 1 ELSE zeros[p]]

MaskExample == [n |-> 16, center_x |-> 16, center_y |-> 16, radius |-> 6]

MaskArgs ==
    {MaskExample} \cup
    UNION { [n : {n}, center_x : -2 .. 2 * n, center_y : -2 .. 2 * n,
             radius : -3 .. 2 * n + 1] : n \in 1 .. MaxMaskN }

GenerateMask ==
    /\ pc = "mask"
    /\ pc' = "masked"
    /\ mask' = generate_real_image_mask(mask_args.n, mask_args.center_x,
                                        mask_args.center_y, mask_args.radius)
    /\ UNCHANGED <<args, fields, hologram, reference_wave, reconstructions, calls,
                   fft_calls, corrector_calls, plot_calls, mask_args, wf, wf_log,
                   direct_call, direct_result>>

(***************************************************************************)
(* ReconstructedWavefield.intensity and .phase.  np.abs, np.imag and       *)
(* np.real of an object that is not an array raise TypeError.              *)
(***************************************************************************)
NotComputedUnchecked(image) == TRUE

NotComputed(image) == image = None

IsArray(v) == v.class = "ndarray"

np_abs(v) == IF IsArray(v) THEN Ok([abs_of |-> v]) ELSE Raise("TypeError")

unwrapped_phase(v, seed) ==
    IF IsArray(v) THEN Ok([unwrap_phase_of |-> v, seed |-> seed]) ELSE Raise("TypeError")

intensity(w) ==
    LET c == np_abs(w.reconstructed_wavefield)
    IN  IF ~NotComputed(w.intensity_image)
        THEN [obj |-> w, computed |-> FALSE, raised |-> NoError, returned |-> w.intensity_image]
        ELSE IF c.raised # NoError
        THEN [obj |-> w, computed |-> FALSE, raised |-> c.raised, returned |-> None]
        ELSE [obj |-> [w EXCEPT !.intensity_image = c.value],
              computed |-> TRUE, raised |-> NoError, returned |-> c.value]

phase(w) ==
    LET c == unwrapped_phase(w.reconstructed_wavefield, w.random_seed)
    IN  IF ~NotComputed(w.phase_image)
        THEN [obj |-> w, computed |-> FALSE, raised |-> NoError, returned |-> w.phase_image]
        ELSE IF c.raised # NoError
        THEN [obj |-> w, computed |-> FALSE, raised |-> c.raised, returned |-> None]
        ELSE [obj |-> [w EXCEPT !.phase_image = c.value],
              computed |-> TRUE, raised |-> NoError, returned |-> c.value]

Access(property, r) ==
    /\ wf' = r.obj
    /\ wf_log' = Append(wf_log, [property |-> property, computed |-> r.computed,
                                 raised |-> r.raised, returned |-> r.returned])
    /\ UNCHANGED <<pc, args, fields, hologram, reference_wave, reconstructions, calls,
                   fft_calls, corrector_calls, plot_calls, mask, mask_args,
                   direct_call, direct_result>>

AccessIntensity ==
    /\ pc = "wavefield"
    /\ Len(wf_log) < MaxAccesses
    /\ Access("intensity", intensity(wf))

AccessPhase ==
    /\ pc = "wavefield"
    /\ Len(wf_log) < MaxAccesses
    /\ Access("phase", phase(wf))

\* The arrays reconstruct_wavefield returns for a 10 x 10 hologram, and the
\* objects reconstruct returns on a cache miss and on a cache hit.
SomeWavefields ==
    { Wavefield([shape |-> <<10, 10>>, apodized |-> k], rw, d, 10) :
        k \in 1 .. 2, rw \in {Ref(r) : r \in RefNames}, d \in Distances }

WrappedValues ==
    SomeWavefields \cup { ReconstructedWavefield(v) : v \in SomeWavefields }

Init ==
    /\ pc = "new"
    /\ args = None
    /\ fields = None
    /\ hologram = None
    /\ reference_wave = Unset
    /\ reconstructions = EmptyDict
    /\ calls = <<>>
    /\ fft_calls = 0
    /\ corrector_calls = 0
    /\ plot_calls = 0
    /\ mask = None
    /\ mask_args = None
    /\ wf = None
    /\ wf_log = <<>>
    /\ direct_call = None
    /\ direct_result = None

Next == Construct \/ Reconstruct \/ ReconstructWavefield

Spec == Init /\ [][Next]_vars

InitMask ==
    /\ pc = "mask"
    /\ args = None
    /\ fields = None
    /\ hologram = None
    /\ reference_wave = Unset
    /\ reconstructions = EmptyDict
    /\ calls = <<>>
    /\ fft_calls = 0
    /\ corrector_calls = 0
    /\ plot_calls = 0
    /\ mask = None
    /\ mask_args \in MaskArgs
    /\ wf = None
    /\ wf_log = <<>>
    /\ direct_call = None
    /\ direct_result = None

NextMask == GenerateMask

SpecMask == InitMask /\ [][NextMask]_vars

InitWavefield ==
    /\ pc = "wavefield"
    /\ args = None
    /\ fields = None
    /\ hologram = None
    /\ reference_wave = Unset
    /\ reconstructions = EmptyDict
    /\ calls = <<>>
    /\ fft_calls = 0
    /\ corrector_calls = 0
    /\ plot_calls = 0
    /\ mask = None
    /\ mask_args = None
    /\ wf \in { ReconstructedWavefield(v) : v \in WrappedValues }
    /\ wf_log = <<>>
    /\ direct_call = None
    /\ direct_result = None

NextWavefield == AccessIntensity \/ AccessPhase

SpecWavefield == InitWavefield /\ [][NextWavefield]_vars

(***************************************************************************)
(* Hologram.find_fourier_peak_centroid on concrete magnitudes, lines       *)
(* 619-624.  margin_factor is in percent.  abs_fourier_arr is the smoothed *)
(* magnitude of the region [margin:-margin, margin:-margin]; that slice is *)
(* empty when margin is 0 or 2*margin >= n, and argmax of an empty array   *)
(* raises.  argmax is applied to the transpose of the region and its flat  *)
(* index is unravelled with the region's shape.                            *)
(***************************************************************************)
margin(n, margin_factor) == (n * margin_factor) \div 100

RegionSide(n, m) == IF m = 0 \/ 2 * m >= n THEN 0 ELSE n - 2 * m

NotTransposed(a) == a

Transposed(a) ==
    [shape |-> <<a.shape[2], a.shape[1]>>,
     data |-> [p \in Index(<<a.shape[2], a.shape[1]>>) |-> a.data[<<p[2], p[1]>>]]]

ravel(a) ==
    [k \in 0 .. a.shape[1] * a.shape[2] - 1 |->
        a.data[<<k \div a.shape[2], k % a.shape[2]>>]]

argmax(flat) ==
    CHOOSE k \in DOMAIN flat :
        /\ \A j \in DOMAIN flat : flat[j] <= flat[k]
        /\ \A j \in DOMAIN flat : j < k => flat[j] < flat[k]

unravel_index(k, shape) == <<k \div shape[2], k % shape[2]>>

spectrum_centroid(abs_fourier_arr, m) ==
    IF DOMAIN abs_fourier_arr.data = {} THEN Raise("ValueError")
    ELSE LET index == unravel_index(argmax(ravel(Transposed(abs_fourier_arr))),
                                    abs_fourier_arr.shape)
         IN  Ok(<<index[1] + m, index[2] + m>>)

PeakArgs ==
    UNION { LET side == RegionSide(n, margin(n, mf))
            IN  [n : {n}, margin_factor : {mf},
                 abs_fourier_arr : {Array(<<side, side>>, d) :
                                       d \in [Index(<<side, side>>) -> Magnitudes]}]
            : <<n, mf>> \in (3 .. MaxPeakN) \X MarginFactorPercents }

FindPeak ==
    /\ pc = "peak"
    /\ pc' = "peaked"
    /\ direct_result' = spectrum_centroid(direct_call.abs_fourier_arr,
                                          margin(direct_call.n, direct_call.margin_factor))
    /\ UNCHANGED <<args, fields, hologram, reference_wave, reconstructions, calls,
                   fft_calls, corrector_calls, plot_calls, mask, mask_args, wf, wf_log,
                   direct_call>>

(***************************************************************************)
(* Hologram.fourier_trans_of_impulse_resp_func on concrete numbers, lines  *)
(* 563-572.  Lengths are integers in one common unit.  With x = col - n/2  *)
(* and N = n**2 * dx**2,                                                    *)
(*    a = wavelength**2 * (x + N/(2.0*d*wavelength))**2 / N                 *)
(*      = (d*wavelength*(2*col - n) + N)**2 / (4 * d**2 * N)                *)
(* and b likewise with the row and dy; both are kept as exact fractions.   *)
(* np.sqrt is given a real float array: of a negative element it returns   *)
(* nan, and exp(-1j*k*d*nan) is nan + nan*j.  Of a non-negative element it *)
(* returns a real number, and exp of an imaginary number has modulus 1.    *)
(***************************************************************************)
kernel_a(n, wavelength, dx, d, col) ==
    [num |-> (d * wavelength * (2 * col - n) + n * n * dx * dx)
                * (d * wavelength * (2 * col - n) + n * n * dx * dx),
     den |-> 4 * d * d * n * n * dx * dx]

kernel_b(n, wavelength, dy, d, row) == kernel_a(n, wavelength, dy, d, row)

\* 1.0 - a - b, over the (positive) common denominator
sqrt_argument(fa, fb) ==
    [num |-> fa.den * fb.den - fa.num * fb.den - fb.num * fa.den,
     den |-> fa.den * fb.den]

np_sqrt(x) ==
    IF x.num < 0 THEN [kind |-> "nan"] ELSE [kind |-> "real", squared |-> x]

\* np.exp(-1j * wavenumber * d * s) of a real float s
np_exp_imaginary(s) ==
    IF s.kind = "nan" THEN [finite |-> FALSE, modulus |-> "nan"]
    ELSE [finite |-> TRUE, modulus |-> "one"]

kernel_g(n, wavelength, dx, dy, d) ==
    IF d = 0 THEN Raise("ZeroDivisionError")
    ELSE Ok([p \in Index(<<n, n>>) |->
                LET arg == sqrt_argument(kernel_a(n, wavelength, dx, d, p[2]),
                                         kernel_b(n, wavelength, dy, d, p[1]))
                IN  [negative_argument |-> arg.num < 0,
                     value |-> np_exp_imaginary(np_sqrt(arg))]])

KernelArgs ==
    [n : 1 .. MaxKernelN, wavelength : KernelLengths, dx : KernelLengths,
     dy : KernelLengths, propagation_distance : -MaxKernelDistance .. MaxKernelDistance]

ImpulseResponse ==
    /\ pc = "kernel"
    /\ pc' = "kernel done"
    /\ direct_result' = kernel_g(direct_call.n, direct_call.wavelength, direct_call.dx,
                                 direct_call.dy, direct_call.propagation_distance)
    /\ UNCHANGED <<args, fields, hologram, reference_wave, reconstructions, calls,
                   fft_calls, corrector_calls, plot_calls, mask, mask_args, wf, wf_log,
                   direct_call>>

(***************************************************************************)
(* shift_peak and the centring shift of reconstruct_wavefield, lines 51-73 *)
(* and 250-265.  self.n/2 is a true division, so a shift is a multiple of  *)
(* one half and is kept doubled; int() truncates it toward zero.  np.roll  *)
(* by s along an axis of length n moves the element at i to (i + s) mod n. *)
(***************************************************************************)
int_of_halves(twice) == IF twice >= 0 THEN twice \div 2 ELSE -((-twice) \div 2)

np_roll(arr, shift, axis) ==
    [arr EXCEPT !.data =
        [p \in Index(arr.shape) |->
            arr.data[IF axis = 0
                     THEN <<(p[1] - shift) % arr.shape[1], p[2]>>
                     ELSE <<p[1], (p[2] - shift) % arr.shape[2]>>]]]

shift_peak(arr, twice_shifts_xy) ==
    np_roll(np_roll(arr, int_of_halves(twice_shifts_xy[1]), 0),
            int_of_halves(twice_shifts_xy[2]), 1)

\* [self.n/2 - spectrum_centroid[1], self.n/2 - spectrum_centroid[0]], doubled;
\* centroid is the 0-based pair (x, y) of the peak locator.
CentringShifts(n, centroid) == <<n - 2 * centroid[2], n - 2 * centroid[1]>>

\* An n x n spectrum whose element at row y, column x is labelled <<y, x>>.
LabelledSpectrum(n) == Array(<<n, n>>, [p \in Index(<<n, n>>) |-> p])

ShiftArgs ==
    UNION { [n : {n},
             spectrum_centroid : (PeakMargin(n) .. n - PeakMargin(n) - 1)
                                     \X (PeakMargin(n) .. n - PeakMargin(n) - 1)]
            : n \in MinShiftN .. MaxShiftN }

CentreSpectrum ==
    /\ pc = "shift"
    /\ pc' = "shifted"
    /\ direct_result' = shift_peak(LabelledSpectrum(direct_call.n),
                                   CentringShifts(direct_call.n,
                                                  direct_call.spectrum_centroid))
    /\ UNCHANGED <<args, fields, hologram, reference_wave, reconstructions, calls,
                   fft_calls, corrector_calls, plot_calls, mask, mask_args, wf, wf_log,
                   direct_call>>

InitPeak ==
    /\ pc = "peak"
    /\ args = None
    /\ fields = None
    /\ hologram = None
    /\ reference_wave = Unset
    /\ reconstructions = EmptyDict
    /\ calls = <<>>
    /\ fft_calls = 0
    /\ corrector_calls = 0
    /\ plot_calls = 0
    /\ mask = None
    /\ mask_args = None
    /\ wf = None
    /\ wf_log = <<>>
    /\ direct_call \in PeakArgs
    /\ direct_result = None

NextPeak == FindPeak

SpecPeak == InitPeak /\ [][NextPeak]_vars

InitKernel ==
    /\ pc = "kernel"
    /\ args = None
    /\ fields = None
    /\ hologram = None
    /\ reference_wave = Unset
    /\ reconstructions = EmptyDict
    /\ calls = <<>>
    /\ fft_calls = 0
    /\ corrector_calls = 0
    /\ plot_calls = 0
    /\ mask = None
    /\ mask_args = None
    /\ wf = None
    /\ wf_log = <<>>
    /\ direct_call \in KernelArgs
    /\ direct_result = None

NextKernel == ImpulseResponse

SpecKernel == InitKernel /\ [][NextKernel]_vars

InitShift ==
    /\ pc = "shift"
    /\ args = None
    /\ fields = None
    /\ hologram = None
    /\ reference_wave = Unset
    /\ reconstructions = EmptyDict
    /\ calls = <<>>
    /\ fft_calls = 0
    /\ corrector_calls = 0
    /\ plot_calls = 0
    /\ mask = None
    /\ mask_args = None
    /\ wf = None
    /\ wf_log = <<>>
    /\ direct_call \in ShiftArgs
    /\ direct_result = None

NextShift == CentreSpectrum

SpecShift == InitShift /\ [][NextShift]_vars

(***************************************************************************)
(* Properties                                                              *)
(***************************************************************************)
Calls == 1 .. Len(calls)

IsReconstruct(i) == calls[i].method = "reconstruct"

Returned(i) == calls[i].raised = NoError

\* C1: two reconstruct calls with the same distance and reference_wave and
\* cache=True: when the first returns, the second returns too and the value it
\* wraps is the value the first one wraps.
C1_CachedCallsSameContent ==
    \A i, j \in Calls :
        (/\ i < j
         /\ IsReconstruct(i) /\ IsReconstruct(j)
         /\ calls[i].cache /\ calls[j].cache
         /\ calls[i].propagation_distance = calls[j].propagation_distance
         /\ calls[i].reference_wave = calls[j].reference_wave
         /\ Returned(i))
        => /\ Returned(j)
           /\ calls[j].returned.reconstructed_wavefield
                = calls[i].returned.reconstructed_wavefield

\* C2: any two reconstruct calls of a session that have the same cache key
\* and both return, return the same result, whatever their cache flag and
\* reference_wave and whatever was called in between.
C2_SameKeySameResult ==
    \A i, j \in Calls :
        (/\ IsReconstruct(i) /\ IsReconstruct(j)
         /\ calls[i].cache_key = calls[j].cache_key
         /\ Returned(i) /\ Returned(j))
        => calls[i].returned = calls[j].returned

\* C3: in a session of reconstruct calls that never pass a reference wave,
\* calculate_digital_phase_mask runs at most once.
C3_CorrectorRunsAtMostOnce ==
    (\A i \in Calls : IsReconstruct(i) /\ calls[i].reference_wave = None)
        => corrector_calls <= 1

\* C4: every pixel of self.hologram keeps the value __init__ gave it.
C4_HologramReadOnly ==
    pc = "ready" =>
        \A p \in DOMAIN hologram.data :
            PixelValue(hologram, fields.n, p)
                = PixelValue(HologramInit(args).value.hologram, fields.n, p)

\* C5: on a square hologram, every reconstruct call without a reference wave
\* returns a ReconstructedWavefield wrapping an array of the hologram's shape.
C5_ReconstructCompletes ==
    \A i \in Calls :
        (/\ IsReconstruct(i)
         /\ calls[i].reference_wave = None
         /\ hologram.shape[1] = hologram.shape[2])
        => /\ Returned(i)
           /\ calls[i].returned.class = "ReconstructedWavefield"
           /\ IsArray(calls[i].returned.reconstructed_wavefield)
           /\ calls[i].returned.reconstructed_wavefield.shape = hologram.shape

\* C6: a reconstruct call given a reference wave does not run the aberration
\* corrector, multiplies no other reference wave into the hologram (and
\* multiplies that one whenever it computes a result), and leaves it in
\* self.reference_wave.
C6_ExplicitReferenceWave ==
    \A i \in Calls :
        (IsReconstruct(i) /\ calls[i].reference_wave # None)
        => /\ ~calls[i].corrector_ran
           /\ calls[i].multiplied \in {None, calls[i].reference_wave}
           /\ (calls[i].computed /\ Returned(i))
                => calls[i].multiplied = calls[i].reference_wave
           /\ calls[i].reference_wave_after = calls[i].reference_wave

C6_Witness ==
    \E i, j \in Calls :
        /\ i < j
        /\ IsReconstruct(i) /\ IsReconstruct(j)
        /\ calls[i].reference_wave = Ref("R1")
        /\ calls[j].reference_wave = Ref("R2")
        /\ Returned(i) /\ Returned(j)
        /\ calls[j].computed
        /\ calls[j].multiplied = Ref("R2")
        /\ reference_wave = Ref("R2")

\* C7: on a square hologram and with cache=True, reconstruct_wavefield runs
\* exactly when the key is not in the cache; a hit returns the stored
\* wavefield and leaves the cache as it was; a miss adds one entry under the
\* key and changes no other.
C7_CacheHitAndMiss ==
    \A i \in Calls :
        (/\ IsReconstruct(i)
         /\ calls[i].cache
         /\ hologram.shape[1] = hologram.shape[2])
        => LET c == calls[i]
               was_cached == c.cache_key \in DOMAIN c.cache_before
           IN  /\ c.computed <=> ~was_cached
               /\ was_cached =>
                    /\ Returned(i)
                    /\ c.returned = c.cache_before[c.cache_key]
                    /\ c.cache_after = c.cache_before
               /\ ~was_cached =>
                    /\ DOMAIN c.cache_after = DOMAIN c.cache_before \cup {c.cache_key}
                    /\ \A k \in DOMAIN c.cache_before :
                          c.cache_after[k] = c.cache_before[k]

\* C8: the mask is an n x n array whose value at row y, column x is 1 when
\* (x - cx)^2 + (y - cy)^2 < r^2 and 0 otherwise (lengths in half pixels).
C8_MaskIsOpenDisk ==
    pc = "masked" =>
        LET a == mask_args
        IN  /\ DOMAIN mask = (0 .. a.n - 1) \X (0 .. a.n - 1)
            /\ \A y, x \in 0 .. a.n - 1 :
                  LET dx == 2 * x - a.center_x
                      dy == 2 * y - a.center_y
                  IN  /\ (dx * dx + dy * dy < a.radius * a.radius) => mask[<<y, x>>] = 1
                      /\ (dx * dx + dy * dy >= a.radius * a.radius) => mask[<<y, x>>] = 0

C8_Witness ==
    /\ pc = "masked"
    /\ mask_args = MaskExample
    /\ mask[<<8, 8>>] = 1
    /\ mask[<<8, 10>>] = 1
    /\ mask[<<8, 11>>] = 0
    /\ mask[<<10, 10>>] = 1
    /\ mask[<<0, 0>>] = 0

ConfigurationError(a) ==
    \/ a.hologram.shape[1] # a.hologram.shape[2]
    \/ a.rebin_factor <= 0
    \/ a.detector_edge_margin >= 50

\* C9: with a non-square input, a rebin factor <= 0 or a margin fraction
\* >= 0.5, no forward FFT is ever performed.
C9_ConfigurationErrorBeforeFFT ==
    (pc # "new" /\ ConfigurationError(args)) => fft_calls = 0

Accesses == 1 .. Len(wf_log)

\* C10: a view of a wavefield object is computed on its first access when the
\* object wraps an array, no later access computes it, and every later
\* access returns what the first one returned.
C10_ViewsComputedOnce ==
    \A j \in Accesses :
        LET earlier == {i \in 1 .. j - 1 : wf_log[i].property = wf_log[j].property}
        IN  /\ (earlier = {} /\ IsArray(wf.reconstructed_wavefield)) => wf_log[j].computed
            /\ earlier # {} => ~wf_log[j].computed
            /\ \A i \in earlier :
                  wf_log[i].raised = NoError
                  => /\ wf_log[j].raised = NoError
                     /\ wf_log[j].returned = wf_log[i].returned

C10_Witness ==
    \E i, j, k, l \in Accesses :
        /\ i < j /\ k < l
        /\ wf_log[i].property = "intensity" /\ wf_log[j].property = "intensity"
        /\ wf_log[k].property = "phase" /\ wf_log[l].property = "phase"
        /\ wf_log[i].computed /\ wf_log[k].computed
        /\ wf_log[j].returned = wf_log[i].returned
        /\ wf_log[l].returned = wf_log[k].returned
        /\ wf.intensity_image = wf_log[i].returned
        /\ wf.phase_image = wf_log[k].returned

\* C11: every reconstruct and reconstruct_wavefield call of a session is made
\* with plot_aberration_correction=False and plot_fourier_peak=False, so no
\* matplotlib call (figure creation, show) is ever made.
C11_NoPlottingWithoutFlags == plot_calls = 0

\* The pixels of the searched region that hold its maximum, as (x, y) = (column,
\* row) detector coordinates.
PeakCandidates ==
    LET a == direct_call.abs_fourier_arr
        m == margin(direct_call.n, direct_call.margin_factor)
    IN  { <<p[2] + m, p[1] + m>> : p \in { q \in DOMAIN a.data :
                                            \A r \in DOMAIN a.data : a.data[r] <= a.data[q] } }

PeakReturned == pc = "peaked" /\ direct_result.raised = NoError

\* C12 (as stated): find_fourier_peak_centroid returns one (x, y) location of
\* the maximum of the smoothed magnitude in the margin-restricted region, and
\* among several maximal pixels the first in a row-major scan of the region
\* (smallest row y, then smallest column x).
C12_FirstInRowMajorScan ==
    PeakReturned =>
        /\ direct_result.value \in PeakCandidates
        /\ \A c \in PeakCandidates :
              \/ direct_result.value[2] < c[2]
              \/ direct_result.value[2] = c[2] /\ direct_result.value[1] <= c[1]

\* C12 (amended): find_fourier_peak_centroid returns one (x, y) location of
\* the maximum of the smoothed magnitude in the margin-restricted region, and
\* among several maximal pixels the first in a column-major scan of the region
\* (smallest column x, then smallest row y): argmax scans the transpose.
C12_FirstInColumnMajorScan ==
    PeakReturned =>
        /\ direct_result.value \in PeakCandidates
        /\ \A c \in PeakCandidates :
              \/ direct_result.value[1] < c[1]
              \/ direct_result.value[1] = c[1] /\ direct_result.value[2] <= c[2]

C12_Witness ==
    /\ PeakReturned
    /\ \E c, d \in PeakCandidates : c[1] < d[1] /\ d[2] < c[2]
    /\ \E p \in DOMAIN direct_call.abs_fourier_arr.data :
          <<p[2] + 1, p[1] + 1>> \notin PeakCandidates

\* C13: at every grid point where the square-root argument 1 - a - b is
\* negative, the kernel value fourier_trans_of_impulse_resp_func returns is
\* finite and has magnitude below 1.
C13_EvanescentDecay ==
    (pc = "kernel done" /\ direct_result.raised = NoError) =>
        \A p \in DOMAIN direct_result.value :
            direct_result.value[p].negative_argument
                => /\ direct_result.value[p].value.finite
                   /\ direct_result.value[p].value.modulus = "below one"

\* C14: for every side length n and every peak location (x, y) of the peak
\* locator, the shifted spectrum holds at index (n div 2, n div 2) the element
\* that was at row y, column x, and every element has moved by one and the
\* same cyclic shift.
C14_PeakMovedToCentre ==
    pc = "shifted" =>
        LET n == direct_call.n
            x == direct_call.spectrum_centroid[1]
            y == direct_call.spectrum_centroid[2]
        IN  /\ direct_result.data[<<n \div 2, n \div 2>>] = <<y, x>>
            /\ \A p \in Index(<<n, n>>) :
                  direct_result.data[<<(p[1] + n \div 2 - y) % n,
                                       (p[2] + n \div 2 - x) % n>>] = p

\* C15: whenever a call searches the spectrum for its peak, the number of
\* pixels the search leaves out on each side is floor(n * detector edge-margin
\* fraction), n the side length of the binned hologram.
C15_SearchExcludesEdgeMargin ==
    \A i \in Calls :
        \A m \in calls[i].peak_margins :
            m = (fields.n * args.detector_edge_margin) \div 100

====
